---- MODULE Spec2Model ----
(***************************************************************************)
(* A model of porter's service registration, health aggregation, request   *)
(* wrapper, error envelope, prediction pipeline and schema objects          *)
(* (src/porter/services.py, src/porter/responses.py,                        *)
(* src/porter/exceptions.py, src/porter/schemas/openapi.py).                *)
(*                                                                          *)
(* Python strings that the code slices or concatenates are sequences of     *)
(* characters; Python objects that the code compares with `is` carry their  *)
(* identity next to their value.                                            *)
(***************************************************************************)
EXTENDS Integers, Sequences, FiniteSets, TLC

VARIABLES
    ids,            \* BaseService._ids, the process-wide set of used ids
    services,       \* the service objects constructed so far, in order
    app,            \* the ModelApp: _services, _service_ids, schema tables, routes
    result,         \* outcome of the last operation (return value or raised error)
    threads,        \* concurrent constructors: position and local values
    call,           \* one activation of BaseService.__call__
    errs,           \* the error handed to make_error_response and the policy flags
    pred            \* one activation of PredictionService._predict

vars == <<ids, services, app, result, threads, call, errs, pred>>

None == "None"

----------------------------------------------------------------------------
(* Bounds *)

MaxServices == 2
MaxThreads == 2
MaxCalls == 2
MaxRows == 2
MaxProperties == 2
MaxNamespaceLen == 3

----------------------------------------------------------------------------
(* Strings and endpoints *)

Names == {<<"a">>}
Versions == {<<"1">>}
Namespaces == {<<>>, <<"n">>, <<"/", "n", "/">>}

\* str.startswith / str.endswith for a one-character argument
startswith(s, c) == Len(s) > 0 /\ s[1] = c
endswith(s, c) == Len(s) > 0 /\ s[Len(s)] = c

\* a plausible slip: the trailing slash is kept
namespace_setter_keep_trailing(value) ==
    IF Len(value) > 0 /\ ~startswith(value, "/") THEN <<"/">> \o value ELSE value

\* BaseService.namespace setter
namespace_setter(value) ==
    LET v1 == IF Len(value) > 0 /\ ~startswith(value, "/") THEN <<"/">> \o value ELSE value
        v2 == IF Len(v1) > 0 /\ endswith(v1, "/") THEN SubSeq(v1, 1, Len(v1) - 1) ELSE v1
    IN  v2

\* cn.ENDPOINT_TEMPLATE = '{namespace}/{service_name}/{api_version}/{action}'
ENDPOINT_TEMPLATE(namespace, service_name, api_version, action) ==
    namespace \o <<"/">> \o service_name \o <<"/">> \o api_version \o <<"/">> \o action

\* BaseService.define_endpoint
define_endpoint(self) ==
    ENDPOINT_TEMPLATE(self.namespace, self.name, self.api_version, self.action)

\* BaseService.define_id
define_id(self) == self.endpoint

----------------------------------------------------------------------------
(* Service statuses.  A status is a Python str object: its value and the   *)
(* object it is.                                                            *)

\* cn.HEALTH_CHECK_VALUES.IS_READY
IS_READY == [value |-> "READY", obj |-> "cn.IS_READY"]

StatusValues ==
    { IS_READY,
      [value |-> "READY", obj |-> "runtime str"],
      [value |-> "NOT READY", obj |-> "runtime str"] }

\* Python's `a is b`
PyIs(a, b) == a.obj = b.obj

\* PredictionService.status
PredictionService_status == IS_READY

----------------------------------------------------------------------------
(* BaseService.id setter *)

\* a plausible slip: the membership test is dropped
id_setter_unchecked(idset, value) ==
    [raised |-> None, ids |-> idset \cup {value}]

\* a plausible slip: a failed registration is rolled back by discarding the id
id_setter_rollback(idset, value) ==
    IF value \in idset
        THEN [raised |-> "ValueError: id already used", ids |-> idset \ {value}]
        ELSE [raised |-> None, ids |-> idset \cup {value}]

id_setter(idset, value) ==
    IF value \in idset
        THEN [raised |-> "ValueError: id already used", ids |-> idset]
        ELSE [raised |-> None, ids |-> idset \cup {value}]

----------------------------------------------------------------------------
(* Construction: BaseService.__init__ followed by the rest of               *)
(* PredictionService.__init__                                               *)

Classes == {"PredictionService", "Service"}

\* the class attribute `action`
action_of(cls) == IF cls = "PredictionService" THEN <<"prediction">> ELSE <<"serve">>

\* the values the `status` property of a class can report
status_of(cls) == IF cls = "PredictionService" THEN {PredictionService_status} ELSE StatusValues

\* BaseService.__init__ up to the assignment of endpoint and id, then the
\* schema registration of PredictionService.__init__
construct(idset, cls, name, api_version, namespace, meta_ok, status, feature_schema_ok) ==
    LET self0 == [cls |-> cls, name |-> name, api_version |-> api_version,
                  namespace |-> namespace_setter(namespace), action |-> action_of(cls),
                  status |-> status]
        endpoint == define_endpoint(self0)
        self1 == [cls |-> cls, name |-> name, api_version |-> api_version,
                  namespace |-> self0.namespace, action |-> self0.action,
                  status |-> status, endpoint |-> endpoint]
        set == id_setter(idset, define_id(self1))
        self2 == [cls |-> cls, name |-> name, api_version |-> api_version,
                  namespace |-> self0.namespace, action |-> self0.action,
                  status |-> status, endpoint |-> endpoint, id |-> define_id(self1)]
    IN  IF ~meta_ok
            THEN [raised |-> "ValueError: meta", ids |-> idset, made |-> <<>>, id |-> <<>>]
        ELSE IF set.raised # None
            THEN [raised |-> set.raised, ids |-> set.ids, made |-> <<>>, id |-> self2.id]
        ELSE IF cls = "PredictionService" /\ ~feature_schema_ok
            THEN [raised |-> "AssertionError: feature_schema", ids |-> set.ids,
                  made |-> <<>>, id |-> self2.id]
        ELSE [raised |-> None, ids |-> set.ids, made |-> <<self2>>, id |-> self2.id]

Construct ==
    \E cls \in Classes, name \in Names, api_version \in Versions,
       namespace \in Namespaces, meta_ok \in BOOLEAN, feature_schema_ok \in BOOLEAN :
    \E status \in status_of(cls) :
        /\ LET c == construct(ids, cls, name, api_version, namespace, meta_ok,
                              status, feature_schema_ok)
           IN  /\ Len(services \o c.made) <= MaxServices
               /\ ids' = c.ids
               /\ services' = services \o c.made
               /\ result' = [op |-> "construct", raised |-> c.raised, id |-> c.id]
        /\ UNCHANGED <<app, threads, call, errs, pred>>

----------------------------------------------------------------------------
(* ModelApp *)

\* dict[key] = value
DictSet(d, key, value) ==
    [k \in DOMAIN d \cup {key} |-> IF k = key THEN value ELSE d[k]]

\* ModelApp.__init__ (the collections add_service works on)
ModelApp_init ==
    [services |-> <<>>, service_ids |-> {}, request_schemas |-> <<>>,
     response_schemas |-> <<>>, additional_params |-> <<>>, routes |-> <<>>]

\* the registration and routing statements of ModelApp.add_service
app_register(a, ref, service) ==
    [services |-> Append(a.services, ref),
     service_ids |-> a.service_ids \cup {service.id},
     request_schemas |-> DictSet(a.request_schemas, service.endpoint, ref),
     response_schemas |-> DictSet(a.response_schemas, service.endpoint, ref),
     additional_params |-> DictSet(a.additional_params, service.endpoint, service.name),
     routes |-> Append(a.routes, <<service.endpoint, ref>>)]

\* a plausible slip: the duplicate is detected only after the service was registered
add_service_late_check(a, ref, service) ==
    IF service.id \in a.service_ids
        THEN [raised |-> "ValueError: service already added", app |-> app_register(a, ref, service)]
        ELSE [raised |-> None, app |-> app_register(a, ref, service)]

\* ModelApp.add_service; `ref` is the service object, `service` its attributes
add_service(a, ref, service) ==
    IF service.id \in a.service_ids
        THEN [raised |-> "ValueError: service already added", app |-> a]
        ELSE [raised |-> None, app |-> app_register(a, ref, service)]

AddService ==
    \E ref \in 1..Len(services) :
        LET r == add_service(app, ref, services[ref])
        IN  /\ app' = r.app
            /\ result' = [op |-> "add_service", raised |-> r.raised, ref |-> ref]
            /\ UNCHANGED <<ids, services, threads, call, errs, pred>>

----------------------------------------------------------------------------
(* Health checks: responses.py *)

\* status_code=None, the default of Response.__init__: no status code given
NoStatus == 0

\* Response.__init__ (the status code it keeps)
Response(data, status_code) == [data |-> data, status_code |-> status_code]

\* Response.jsonify: the status code is set on the HTTP response only when given,
\* otherwise the HTTP layer's default (200) stays
jsonify(response) ==
    [data |-> response.data,
     status_code |-> IF response.status_code # NoStatus THEN response.status_code ELSE 200]

\* Response._init_model_context
init_model_context(service) ==
    [model_name |-> service.name, api_version |-> service.api_version]

\* _build_app_state: the "services" entry, keyed by service id
build_app_state(a, svcs) ==
    [i \in {svcs[a.services[k]].id : k \in 1..Len(a.services)} |->
        LET service == svcs[CHOOSE r \in {a.services[k] : k \in 1..Len(a.services)} :
                                svcs[r].id = i]
        IN  [model_context |-> init_model_context(service),
             status |-> service.status,
             endpoint |-> service.endpoint]]

\* _is_ready: `services and all(... is IS_READY ...)`, taken as a truth value
is_ready(app_state) ==
    /\ DOMAIN app_state # {}
    /\ \A i \in DOMAIN app_state : PyIs(app_state[i].status, IS_READY)

\* make_ready_response
make_ready_response(a, svcs) ==
    LET app_state == build_app_state(a, svcs)
        ready == is_ready(app_state)
    IN  Response(app_state, IF ready THEN 200 ELSE 503)

\* a plausible slip: liveness answered with the readiness computation
make_alive_response_as_ready(a, svcs) == make_ready_response(a, svcs)

\* make_alive_response
make_alive_response(a, svcs) ==
    LET app_state == build_app_state(a, svcs)
    IN  Response(app_state, 200)

\* ServeAlive.__call__
ServeAlive ==
    /\ result' = [op |-> "alive", response |-> jsonify(make_alive_response(app, services))]
    /\ UNCHANGED <<ids, services, app, threads, call, errs, pred>>

\* ServeReady.__call__
ServeReady ==
    /\ result' = [op |-> "ready", response |-> jsonify(make_ready_response(app, services))]
    /\ UNCHANGED <<ids, services, app, threads, call, errs, pred>>

----------------------------------------------------------------------------
(* The service registry and the health checks, run sequentially *)

Idle == [op |-> "none"]

Init ==
    /\ ids = {}
    /\ services = <<>>
    /\ app = ModelApp_init
    /\ result = Idle
    /\ threads = <<>>
    /\ call = Idle
    /\ errs = Idle
    /\ pred = Idle

Next == Construct \/ AddService \/ ServeAlive \/ ServeReady

Spec == Init /\ [][Next]_vars

----------------------------------------------------------------------------
(* Properties of the registry and the health checks (specification Spec)    *)

\* the step is a construction whose derived id is already in the id set
ConstructCollides == result'.op = "construct" /\ result'.id \in ids

NoTwoServicesShareAnId ==
    \A i, j \in 1..Len(services) : i # j => services[i].id # services[j].id

\* C1: after any sequence of constructions no two constructed services have
\* the same id, and a construction whose derived id is already in the
\* process-wide id set raises instead of producing a service.
C1_UniqueIds ==
    /\ []NoTwoServicesShareAnId
    /\ [][ConstructCollides => (result'.raised # None /\ services' = services)]_vars

C1_Witness ==
    /\ Len(services) >= 2
    /\ result.op = "construct"
    /\ result.raised = "ValueError: id already used"

\* C2: a construction that fails on an id collision registers nothing: the
\* id set is what it was before the attempt and the service that owns the id
\* is still registered.
C2_NoPartialRegistration ==
    [][ConstructCollides =>
          /\ ids' = ids
          /\ \A i \in 1..Len(services) :
                services[i].id = result'.id => services[i].id \in ids']_vars

C2_Witness ==
    /\ result.op = "construct"
    /\ result.raised = "ValueError: id already used"
    /\ \E i \in 1..Len(services) : services[i].id = result.id /\ services[i].id \in ids

\* C4: add_service with an id already registered on the app raises and leaves
\* the service list, the id set, the schema tables and the routes unchanged;
\* with a new id the service is appended and routed at its endpoint.
C4_AddService ==
    [][result'.op = "add_service" =>
          LET ref == result'.ref
              service == services[ref]
          IN  IF service.id \in app.service_ids
                  THEN /\ result'.raised # None
                       /\ app'.services = app.services
                       /\ app'.service_ids = app.service_ids
                       /\ app'.request_schemas = app.request_schemas
                       /\ app'.response_schemas = app.response_schemas
                       /\ app'.routes = app.routes
                  ELSE /\ result'.raised = None
                       /\ app'.services = Append(app.services, ref)
                       /\ app'.service_ids = app.service_ids \cup {service.id}
                       /\ app'.routes = Append(app.routes, <<service.endpoint, ref>>)]_vars

C4_Witness ==
    /\ result.op = "add_service"
    /\ result.raised = "ValueError: service already added"
    /\ Len(app.services) >= 2
    /\ Len(app.routes) = Len(app.services)

\* some registered service reports a status that is not the ready value
SomeServiceNotReady ==
    \E k \in 1..Len(app.services) :
        services[app.services[k]].status.value # IS_READY.value

\* C5: the liveness response has status 200 in every reachable state of the
\* app, with no services registered and whatever the services report.
C5_AliveIs200 ==
    result.op = "alive" => result.response.status_code = 200

C5_Witness ==
    /\ result.op = "alive"
    /\ SomeServiceNotReady
    /\ result.response.status_code = 200

\* C6: the readiness response has status 200 exactly when at least one
\* service is registered and every registered service's status equals the
\* canonical ready value, and status 503 in every other state.
C6_ReadyIffAllEqualReady ==
    result.op = "ready" =>
        result.response.status_code =
            IF /\ Len(app.services) > 0
               /\ \A k \in 1..Len(app.services) :
                     services[app.services[k]].status.value = IS_READY.value
                THEN 200 ELSE 503

----------------------------------------------------------------------------
(* Concurrent construction: each thread runs BaseService.__init__ on its    *)
(* own instance; the id setter's membership test and its insertion are      *)
(* separate steps on the shared set, with no lock around them.              *)

Threads == 1..MaxThreads

ThreadIdle == [pc |-> "idle", value |-> <<>>]

\* __init__ up to `self.id = self.define_id()`: the value handed to the setter
T_Begin(t) ==
    \E name \in Names, api_version \in Versions, namespace \in Namespaces, cls \in Classes :
        LET self == [name |-> name, api_version |-> api_version,
                     namespace |-> namespace_setter(namespace), action |-> action_of(cls)]
            endpoint == define_endpoint(self)
        IN  /\ threads[t].pc = "idle"
            /\ threads' = [threads EXCEPT ![t] = [pc |-> "test", value |-> endpoint]]
            /\ UNCHANGED <<ids, services, app, result, call, errs, pred>>

\* `if value in self._ids: raise ValueError(...)`
T_Test(t) ==
    /\ threads[t].pc = "test"
    /\ threads' = [threads EXCEPT ![t].pc =
                      IF threads[t].value \in ids THEN "raised" ELSE "add"]
    /\ UNCHANGED <<ids, services, app, result, call, errs, pred>>

\* `self._ids.add(value); self._id = value`
T_Add(t) ==
    /\ threads[t].pc = "add"
    /\ ids' = ids \cup {threads[t].value}
    /\ threads' = [threads EXCEPT ![t].pc = "constructed"]
    /\ UNCHANGED <<services, app, result, call, errs, pred>>

InitConc ==
    /\ ids = {}
    /\ services = <<>>
    /\ app = ModelApp_init
    /\ result = Idle
    /\ threads = [t \in Threads |-> ThreadIdle]
    /\ call = Idle
    /\ errs = Idle
    /\ pred = Idle

NextConc == \E t \in Threads : T_Begin(t) \/ T_Test(t) \/ T_Add(t)

SpecConc == InitConc /\ [][NextConc]_vars

\* C3: when threads construct services deriving the same id at the same
\* time, in every interleaving of the membership check and the insertion at
\* most one construction succeeds and the others raise the duplicate-id error.
C3_ConcurrentConstructionSafe ==
    \A t1, t2 \in Threads :
        (t1 # t2 /\ threads[t1].value = threads[t2].value
            /\ threads[t1].pc = "constructed")
        => threads[t2].pc # "constructed"

----------------------------------------------------------------------------
(* The invocation wrapper, BaseService.__call__.  An optional value (a      *)
(* Python name that may hold None) is a sequence of length 0 or 1.          *)

\* an exception object: its class, whether the class derives from
\* werkzeug's HTTPException, its `code` (NoStatus: no such attribute), its
\* __cause__ and its `model_service` attribute (absent: <<>>)
Error(type, http, code) ==
    [type |-> type, http |-> http, code |-> code, cause |-> <<>>, model_service |-> <<>>]

\* werkzeug.exceptions raised by serve() (get_post_data raises UnprocessableEntity)
HTTPErrors ==
    { Error("BadRequest", TRUE, 400),
      Error("UnprocessableEntity", TRUE, 422),
      Error("ServiceUnavailable", TRUE, 503) }

\* any other exception a serve() implementation can raise
OtherErrors ==
    { Error("Exception", FALSE, NoStatus),
      Error("ValueError", FALSE, NoStatus) }

\* werkzeug_exc.InternalServerError('Could not serve model results successfully.'),
\* raised `from caught_error`
InternalServerError_from(caught_error) ==
    [type |-> "InternalServerError", http |-> TRUE, code |-> 500,
     cause |-> <<caught_error.type>>, model_service |-> <<>>]

\* what serve() does in one call: it returns an object (a Response or a
\* plain JSON-like object, with the status code it carries, whether it can
\* be serialized and whether it conforms to the registered response schema)
\* or it raises
ServeOutcomes ==
    [kind : {"return"}, status_code : {NoStatus, 200, 422},
     serializable : BOOLEAN, conforms : BOOLEAN, error : {Error("", FALSE, NoStatus)}]
    \cup [kind : {"raise"}, status_code : {NoStatus}, serializable : {TRUE},
          conforms : {TRUE}, error : HTTPErrors \cup OtherErrors]

Methods == {"GET", "POST"}

\* BaseService._default_response_schemas
default_response_schemas == {<<"POST", 400>>, <<"POST", 422>>, <<"POST", 500>>}

\* PredictionService._service_default_schemas and _add_prediction_schema
prediction_response_schemas == {<<"GET", 200>>, <<"POST", 200>>}

\* the keys of self._response_schemas after construction
response_schema_keys(cls) ==
    IF cls = "PredictionService"
        THEN default_response_schemas \cup prediction_response_schemas
        ELSE default_response_schemas

\* the attributes of a constructed service that __call__ reads
ServiceObjects ==
    [cls : Classes, name : Names, api_version : Versions,
     log_api_calls : BOOLEAN, validate_response_data : BOOLEAN]

\* the try block of __call__: the value left in `response`, the exception
\* caught and the exception the except clause raises
call_try(self, outcome) ==
    IF outcome.kind = "raise"
        THEN [response |-> <<>>, caught_error |-> <<outcome.error>>,
              pending |-> <<IF outcome.error.http THEN outcome.error
                            ELSE InternalServerError_from(outcome.error)>>]
    ELSE IF ~outcome.serializable
        \* api.jsonify raises: `response` still holds the Response object
        THEN [response |-> <<[jsonified |-> FALSE, status_code |-> outcome.status_code,
                              conforms |-> outcome.conforms]>>,
              caught_error |-> <<Error("TypeError", FALSE, NoStatus)>>,
              pending |-> <<InternalServerError_from(Error("TypeError", FALSE, NoStatus))>>]
    ELSE [response |-> <<[jsonified |-> TRUE,
                          status_code |-> jsonify(Response(<<>>, outcome.status_code)).status_code,
                          conforms |-> outcome.conforms]>>,
          caught_error |-> <<>>, pending |-> <<>>]

\* a plausible slip: the api call is logged on the success path only
call_log_success_only(self, request, try) ==
    IF try.caught_error # <<>>
        THEN <<[event |-> "exception", request_id |-> request.id,
                service_class |-> self.cls, error |-> try.caught_error[1].type]>>
    ELSE IF self.log_api_calls
        THEN <<[event |-> "api_call", request_id |-> request.id,
                request_data |-> request.json, service_class |-> self.cls,
                response_data |-> try.response]>>
    ELSE <<>>

\* _log_error and _log_api_call as called from the finally block
call_log(self, request, try) ==
    (IF try.caught_error # <<>>
        THEN <<[event |-> "exception", request_id |-> request.id,
                service_class |-> self.cls, error |-> try.caught_error[1].type]>>
        ELSE <<>>)
    \o
    (IF self.log_api_calls
        THEN <<[event |-> "api_call", request_id |-> request.id,
                request_data |-> request.json, service_class |-> self.cls,
                response_data |-> IF try.response = <<>> THEN <<>>
                                  ELSE <<try.response[1]>>]>>
        ELSE <<>>)

\* a plausible slip: the schema is looked up but the payload never checked
call_validate_lookup_only(self, request, try) ==
    IF ~self.validate_response_data THEN <<>>
    ELSE IF try.response = <<>>
        THEN <<Error("AttributeError", FALSE, NoStatus)>>
    ELSE <<>>

\* the response validation of the finally block: the exception it raises, if any
call_validate(self, request, try) ==
    IF ~self.validate_response_data THEN <<>>
    ELSE IF try.response = <<>>
        \* None.status_code
        THEN <<Error("AttributeError", FALSE, NoStatus)>>
    ELSE IF <<request.method, try.response[1].status_code>> \notin response_schema_keys(self.cls)
        THEN <<>>
    ELSE IF ~try.response[1].jsonified
        \* a porter Response has no raw_data
        THEN <<Error("AttributeError", FALSE, NoStatus)>>
    ELSE IF ~try.response[1].conforms
        THEN <<Error("ValueError: Schema validation failed", FALSE, NoStatus)>>
    ELSE <<>>

\* BaseService.__call__
BaseService_call(self, request, outcome) ==
    LET try == call_try(self, outcome)
        finally_raised == call_validate(self, request, try)
    IN  [model_context |-> <<self>>,
         logged |-> call_log(self, request, try),
         raised |-> IF finally_raised # <<>> THEN finally_raised ELSE try.pending,
         returned |-> IF finally_raised = <<>> /\ try.pending = <<>>
                         THEN try.response ELSE <<>>]

\* one HTTP request routed to the service
Call ==
    \E method \in Methods, outcome \in ServeOutcomes :
        LET request == [method |-> method, id |-> 123, json |-> "payload"]
            c == BaseService_call(call.self, request, outcome)
        IN  /\ call.n < MaxCalls
            /\ call' = [self |-> call.self, n |-> call.n + 1, request |-> <<request>>,
                        outcome |-> <<outcome>>, log |-> call.log \o c.logged,
                        logged |-> c.logged, model_context |-> c.model_context,
                        raised |-> c.raised, returned |-> c.returned]
            /\ UNCHANGED <<ids, services, app, result, threads, errs, pred>>

InitCall ==
    /\ ids = {}
    /\ services = <<>>
    /\ app = ModelApp_init
    /\ result = Idle
    /\ threads = <<>>
    /\ call \in [self : ServiceObjects, n : {0}, request : {<<>>}, outcome : {<<>>},
                 log : {<<>>}, logged : {<<>>}, model_context : {<<>>},
                 raised : {<<>>}, returned : {<<>>}]
    /\ errs = Idle
    /\ pred = Idle

NextCall == Call

SpecCall == InitCall /\ [][NextCall]_vars

\* serve() raised in the last call, and what it raised
ServeRaised == call.outcome # <<>> /\ call.outcome[1].kind = "raise"
ServedError == call.outcome[1].error

\* C7: for every exception raised by serve() that is not an HTTP-status
\* error, the wrapper raises a status-500 error that has the service's model
\* context (name, api_version, meta) attached and the original exception as
\* its cause; the original exception never reaches the caller unwrapped.
C7_OtherErrorsWrappedWithContext ==
    (ServeRaised /\ ~ServedError.http) =>
        /\ call.raised # <<>>
        /\ call.raised[1].code = 500
        /\ call.raised[1].cause = <<ServedError.type>>
        /\ call.raised[1].model_service = <<call.self>>

\* C8: when serve() raises an HTTP-status error, the wrapper re-raises that
\* same error unchanged; it is never converted into a computation failure.
C8_HTTPErrorsReraisedUnchanged ==
    (ServeRaised /\ ServedError.http) => call.raised = <<ServedError>>

----------------------------------------------------------------------------
(* Error envelopes: exceptions.py and responses.make_error_response         *)

\* the `code` class attributes of porter.exceptions
BadRequest_code == 400
InvalidModelInput_code == 422
PredictionError_code == 500

\* the service a ModelContextError can point back to
ContextServices == [name : Names, api_version : Versions]

\* porter.exceptions: ModelContextError.__init__ sets model_service = None,
\* update_model_context sets it to the service
PorterErrors ==
    { [type |-> t[1], http |-> FALSE, code |-> t[2], cause |-> <<>>, model_service |-> ms] :
        t \in { <<"BadRequest", BadRequest_code>>,
                <<"InvalidModelInput", InvalidModelInput_code>>,
                <<"PredictionError", PredictionError_code>> },
        ms \in {<<>>} \cup {<<svc>> : svc \in ContextServices} }

\* an exception that was given a `code` attribute by hand (error.code = 123)
CustomCodeErrors == { Error("ValueError", FALSE, 123) }

\* every error make_error_response is handed
ErrorInputs ==
    PorterErrors \cup HTTPErrors \cup OtherErrors \cup CustomCodeErrors
    \cup { InternalServerError_from(e) : e \in OtherErrors }

\* the policy flags of porter.config read by responses.py
ConfigFlags ==
    [return_message_on_error : BOOLEAN, return_traceback_on_error : BOOLEAN,
     return_user_data_on_error : BOOLEAN, return_request_id : BOOLEAN]

\* Response._init_payload: the top-level keys of the payload
init_payload(cf, service_class, data_keys) ==
    (IF cf.return_request_id THEN {"request_id"} ELSE {})
    \cup (IF service_class # <<>> THEN {"model_context"} ELSE {})
    \cup data_keys

\* a plausible slip: the messages are returned whatever the policy says
error_payload_always_messages(cf, error) ==
    [keys |-> init_payload(cf, error.model_service, {"error"}),
     error_keys |-> {"name", "messages"}
        \cup (IF cf.return_traceback_on_error THEN {"traceback"} ELSE {})
        \cup (IF cf.return_user_data_on_error THEN {"user_data"} ELSE {}),
     name |-> error.type,
     model_context |-> error.model_service]

\* the payload make_error_response builds and Response._init_payload completes
error_payload(cf, error) ==
    [keys |-> init_payload(cf, error.model_service, {"error"}),
     error_keys |-> {"name"}
        \cup (IF cf.return_message_on_error THEN {"messages"} ELSE {})
        \cup (IF cf.return_traceback_on_error THEN {"traceback"} ELSE {})
        \cup (IF cf.return_user_data_on_error THEN {"user_data"} ELSE {}),
     name |-> error.type,
     model_context |-> error.model_service]

\* a plausible slip: an error without a code is answered as a client error
make_error_response_default_400(cf, error) ==
    Response(error_payload(cf, error), IF error.code # NoStatus THEN error.code ELSE 400)

\* make_error_response: status_code=getattr(error, 'code', 500)
make_error_response(cf, error) ==
    Response(error_payload(cf, error), IF error.code # NoStatus THEN error.code ELSE 500)

\* serve_error_message
ServeErrorMessage ==
    \E cf \in ConfigFlags, error \in ErrorInputs :
        LET response == make_error_response(cf, error)
        IN  /\ errs' = [op |-> "error", cf |-> cf, error |-> error, response |-> response,
                        status_code |-> jsonify(response).status_code]
            /\ UNCHANGED <<ids, services, app, result, threads, call, pred>>

InitErr ==
    /\ ids = {}
    /\ services = <<>>
    /\ app = ModelApp_init
    /\ result = Idle
    /\ threads = <<>>
    /\ call = Idle
    /\ errs = Idle
    /\ pred = Idle

NextErr == ServeErrorMessage

SpecErr == InitErr /\ [][NextErr]_vars

\* C9: the status code of an error response is a function of the error
\* kind: 400 for a malformed-payload error, 422 for an invalid-input error,
\* 500 for a computation error; an error that carries a status code gets that
\* code and an error that carries none gets 500.
C9_StatusFromErrorKind ==
    errs.op = "error" =>
        /\ (errs.error \in PorterErrors /\ errs.error.type = "BadRequest")
                => errs.status_code = 400
        /\ (errs.error \in PorterErrors /\ errs.error.type = "InvalidModelInput")
                => errs.status_code = 422
        /\ (errs.error \in PorterErrors /\ errs.error.type = "PredictionError")
                => errs.status_code = 500
        /\ errs.error.code # NoStatus => errs.status_code = errs.error.code
        /\ errs.error.code = NoStatus => errs.status_code = 500

C9_Witness ==
    /\ errs.op = "error"
    /\ errs.error.code = NoStatus
    /\ errs.status_code = 500

----------------------------------------------------------------------------
(* The prediction pipeline: PredictionService._predict.  A DataFrame is its *)
(* set of columns and its rows in order; a JSON object is a record.         *)

\* the JSON objects a request carries: an instance with id and feature x,
\* one with an undeclared extra column, one without id
Rows ==
    { [id |-> 1, x |-> 1], [id |-> 2, x |-> 2, z |-> 1], [x |-> 2] }

RowSeqs == UNION { [1..n -> Rows] : n \in 0..MaxRows }

\* the parsed POST body: a JSON array of objects or a single JSON object
Bodies ==
    [kind : {"array"}, rows : RowSeqs]
    \cup [kind : {"object"}, rows : { <<r>> : r \in Rows }]

\* the value pandas puts where a row has no entry for a column
NaN == -1

\* the feature_schema argument: None, or an Object given by the names of the
\* properties it declares
FeatureSchemas == {<<>>, <<{}>>, <<{"x"}>>}

\* a PredictionService as _predict reads it: the collaborators are named by
\* what they do when called
PredictionServices ==
    [batch_prediction : BOOLEAN, validate_request_data : BOOLEAN,
     feature_schema : FeatureSchemas,
     additional_checks : {"None", "pass", "raise ValueError"},
     preprocessor : {"None", "x+1"},
     model : {"x*10", "one output short", "one output more", "raise"},
     postprocessor : {"None", "preds*2"}]

\* PredictionService.__init__: list(feature_schema.properties.keys()) or None;
\* the empty set stands for both falsy values, None and []
feature_columns(self) ==
    IF self.feature_schema # <<>> THEN self.feature_schema[1] ELSE {}

\* a plausible slip: the registered schema accepts every body
request_schema_accepts_anything(self, body) == TRUE

\* _add_feature_schema: the POST request schema requires id and every
\* declared property of each object, in an array in batch mode
request_schema_accepts(self, body) ==
    /\ body.kind = (IF self.batch_prediction THEN "array" ELSE "object")
    /\ \A k \in 1..Len(body.rows) : {"id"} \cup feature_columns(self) \subseteq DOMAIN body.rows[k]

\* pd.DataFrame(list of dict): the union of the keys, NaN where a row lacks one
DataFrame(rows) ==
    LET columns == UNION { DOMAIN rows[k] : k \in 1..Len(rows) }
    IN  [columns |-> columns,
         rows |-> [k \in 1..Len(rows) |->
                     [c \in columns |-> IF c \in DOMAIN rows[k] THEN rows[k][c] ELSE NaN]]]

\* a plausible slip: the frame is handed on whole
Project_nothing(X, columns) == X

\* X[columns]
Project(X, columns) ==
    [columns |-> columns,
     rows |-> [k \in 1..Len(X.rows) |-> [c \in columns |-> X.rows[k][c]]]]

\* X[column] as a sequence of values
Column(X, column) == [k \in 1..Len(X.rows) |-> X.rows[k][column]]

\* one entry of the invocation trace of a request: the callable invoked, the
\* arguments it was handed and what it returned (nothing when it raised)
Invoked(stage, in, out) == [stage |-> stage, in |-> in, out |-> out]

\* BaseService.get_post_data followed by PredictionService.get_post_data
get_post_data(self, body) ==
    LET validates == self.validate_request_data /\ self.feature_schema # <<>>
        v == IF validates
                THEN <<Invoked("schema.validate", <<body>>,
                               IF request_schema_accepts(self, body) THEN <<None>> ELSE <<>>)>>
                ELSE <<>>
        frame == IF ~self.batch_prediction
                    THEN IF body.kind = "object"
                            THEN <<DataFrame(body.rows)>>
                            \* pd.DataFrame([[...]]): one row, positional columns only
                            ELSE << [columns |-> {}, rows |-> << <<>> >>] >>
                 ELSE IF body.kind = "array"
                    THEN <<DataFrame(body.rows)>>
                    \* pd.DataFrame(dict of scalars) raises ValueError
                    ELSE <<>>
    IN  IF validates /\ ~request_schema_accepts(self, body)
            THEN [raised |-> <<Error("UnprocessableEntity", TRUE, 422)>>,
                  X |-> DataFrame(<<>>), stages |-> v]
        ELSE IF frame = <<>>
            THEN [raised |-> <<Error("ValueError", FALSE, NoStatus)>>,
                  X |-> DataFrame(<<>>),
                  stages |-> Append(v, Invoked("pd.DataFrame", <<body>>, <<>>))]
        ELSE [raised |-> <<>>, X |-> frame[1],
              stages |-> Append(v, Invoked("pd.DataFrame", <<body>>, frame))]

\* preprocessor.process
preprocess(self, X) ==
    IF "x" \notin X.columns
        THEN [raised |-> <<Error("KeyError", FALSE, NoStatus)>>, X |-> X]
        ELSE [raised |-> <<>>,
              X |-> [columns |-> X.columns,
                     rows |-> [k \in 1..Len(X.rows) |->
                                 [c \in X.columns |-> IF c = "x" THEN X.rows[k][c] + 1
                                                      ELSE X.rows[k][c]]]]]

\* model.predict: the outputs the computation returns for a batch
model_predict(self, X) ==
    IF self.model = "raise"
        THEN [raised |-> <<Error("Exception", FALSE, NoStatus)>>, preds |-> <<>>]
    ELSE IF "x" \notin X.columns
        THEN [raised |-> <<Error("KeyError", FALSE, NoStatus)>>, preds |-> <<>>]
    ELSE LET out == [k \in 1..Len(X.rows) |-> X.rows[k]["x"] * 10]
         IN  [raised |-> <<>>,
              preds |-> CASE self.model = "x*10" -> out
                          [] self.model = "one output short" ->
                                IF out = <<>> THEN out ELSE SubSeq(out, 1, Len(out) - 1)
                          [] self.model = "one output more" -> Append(out, 0)]

\* postprocessor.process(X_input, X_preprocessed, preds)
postprocess(self, X_input, X_preprocessed, preds) ==
    [k \in 1..Len(preds) |-> preds[k] * 2]

\* zip(a, b): as long as the shorter argument
Zip(a, b) ==
    [k \in 1..(IF Len(a) <= Len(b) THEN Len(a) ELSE Len(b)) |-> <<a[k], b[k]>>]

\* a plausible slip: every record is built from the first prediction
make_batch_prediction_response_first(model_service, id_values, predictions) ==
    LET pairs == Zip(id_values, predictions)
    IN  Response([model_context |-> model_service,
                  predictions |-> [k \in 1..Len(pairs) |->
                                     [id |-> pairs[k][1], prediction |-> pairs[1][2]]]],
                 NoStatus)

\* make_batch_prediction_response
make_batch_prediction_response(model_service, id_values, predictions) ==
    LET pairs == Zip(id_values, predictions)
    IN  Response([model_context |-> model_service,
                  predictions |-> [k \in 1..Len(pairs) |->
                                     [id |-> pairs[k][1], prediction |-> pairs[k][2]]]],
                 NoStatus)

\* a plausible slip: the two values are bound to the wrong keys
make_prediction_response_swapped(model_service, id_value, prediction) ==
    Response([model_context |-> model_service,
              predictions |-> [id |-> prediction, prediction |-> id_value]],
             NoStatus)

\* make_prediction_response
make_prediction_response(model_service, id_value, prediction) ==
    Response([model_context |-> model_service,
              predictions |-> [id |-> id_value, prediction |-> prediction]],
             NoStatus)

\* a plausible slip: the failing call is tried once more before the error is
\* surfaced
Raise_after_retry(error, stages) ==
    [raised |-> <<error>>, returned |-> <<>>,
     stages |-> Append(stages, stages[Len(stages)]), preds |-> <<>>]

\* the outcome of _predict when a stage raises
Raise(error, stages) ==
    [raised |-> <<error>>, returned |-> <<>>, stages |-> stages, preds |-> <<>>]

\* PredictionService._predict.  `stages` lists the callables invoked, in
\* order, each with its arguments and its return value.  The response
\* builders find the service through the request's model context.
predict(self, body) ==
    LET got == get_post_data(self, body)
        X_input == got.X
        s1 == got.stages
        s2 == IF self.additional_checks # "None"
                 THEN Append(s1, Invoked("additional_checks", <<X_input>>,
                                         IF self.additional_checks = "pass"
                                            THEN <<None>> ELSE <<>>))
                 ELSE s1
        projects == feature_columns(self) # {}
        projectable == feature_columns(self) \subseteq X_input.columns
        X_features == IF projects
                         THEN Project(X_input, feature_columns(self))
                         ELSE X_input
        s3 == IF projects
                 THEN Append(s2, Invoked("X_input[feature_columns]", <<X_input>>,
                                         IF projectable THEN <<X_features>> ELSE <<>>))
                 ELSE s2
        pre == IF self.preprocessor # "None"
                  THEN preprocess(self, X_features)
                  ELSE [raised |-> <<>>, X |-> X_features]
        s4 == IF self.preprocessor # "None"
                 THEN Append(s3, Invoked("preprocessor.process", <<X_features>>,
                                         IF pre.raised = <<>> THEN <<pre.X>> ELSE <<>>))
                 ELSE s3
        X_preprocessed == pre.X
        out == model_predict(self, X_preprocessed)
        s5 == Append(s4, Invoked("model.predict", <<X_preprocessed>>,
                                 IF out.raised = <<>> THEN <<out.preds>> ELSE <<>>))
        preds == IF self.postprocessor # "None"
                    THEN postprocess(self, X_input, X_preprocessed, out.preds)
                    ELSE out.preds
        s6 == IF self.postprocessor # "None"
                 THEN Append(s5, Invoked("postprocessor.process",
                                         <<X_input, X_preprocessed, out.preds>>, <<preds>>))
                 ELSE s5
        batch_response == make_batch_prediction_response(self, Column(X_input, "id"), preds)
        response == make_prediction_response(self, Column(X_input, "id")[1], preds[1])
    IN  IF got.raised # <<>> THEN Raise(got.raised[1], s1)
        ELSE IF self.additional_checks = "raise ValueError"
            THEN Raise(Error("ValueError", FALSE, NoStatus), s2)
        ELSE IF ~projectable
            THEN Raise(Error("KeyError", FALSE, NoStatus), s3)
        ELSE IF pre.raised # <<>> THEN Raise(pre.raised[1], s4)
        ELSE IF out.raised # <<>> THEN Raise(out.raised[1], s5)
        ELSE IF "id" \notin X_input.columns
            THEN Raise(Error("KeyError", FALSE, NoStatus), s6)
        ELSE IF self.batch_prediction
            THEN [raised |-> <<>>, returned |-> <<batch_response>>,
                  stages |-> Append(s6, Invoked("make_batch_prediction_response",
                                                <<Column(X_input, "id"), preds>>,
                                                <<batch_response>>)),
                  preds |-> <<preds>>]
        ELSE IF preds = <<>>
            THEN Raise(Error("IndexError", FALSE, NoStatus), s6)
        ELSE [raised |-> <<>>, returned |-> <<response>>,
              stages |-> Append(s6, Invoked("make_prediction_response",
                                            <<Column(X_input, "id")[1], preds[1]>>,
                                            <<response>>)),
              preds |-> <<preds>>]

\* one POST request served by PredictionService.serve
Predict ==
    \E body \in Bodies :
        LET p == predict(pred.self, body)
        IN  /\ pred' = [op |-> "predict", self |-> pred.self, body |-> body,
                        raised |-> p.raised, returned |-> p.returned,
                        stages |-> p.stages, preds |-> p.preds]
            /\ UNCHANGED <<ids, services, app, result, threads, call, errs>>

InitPredict ==
    /\ ids = {}
    /\ services = <<>>
    /\ app = ModelApp_init
    /\ result = Idle
    /\ threads = <<>>
    /\ call = Idle
    /\ errs = Idle
    /\ pred \in [op : {"constructed"}, self : PredictionServices, body : {<<>>},
                 raised : {<<>>}, returned : {<<>>}, stages : {<<>>}, preds : {<<>>}]

NextPredict == Predict

SpecPredict == InitPredict /\ [][NextPredict]_vars

\* the last request was a batch request with a valid payload: an array whose
\* objects all carry id and the feature
ValidBatchRequest ==
    /\ pred.op = "predict"
    /\ pred.self.batch_prediction
    /\ pred.body.kind = "array"
    /\ \A k \in 1..Len(pred.body.rows) : {"id", "x"} \subseteq DOMAIN pred.body.rows[k]

\* no collaborator raised: every stage up to the computation was reached
NoStageRaised ==
    /\ pred.self.additional_checks # "raise ValueError"
    /\ pred.self.model # "raise"

\* the number of outputs the computation (and postprocessor) handed back
Outputs == pred.preds[1]

Min(a, b) == IF a <= b THEN a ELSE b

----------------------------------------------------------------------------
(* Instance mode *)

\* the last request was an instance request with a valid payload: one object
\* that carries id and the feature
ValidInstanceRequest ==
    /\ pred.op = "predict"
    /\ ~pred.self.batch_prediction
    /\ pred.body.kind = "object"
    /\ {"id", "x"} \subseteq DOMAIN pred.body.rows[1]

\* what the configured collaborators compute from feature value x
ExpectedOutput(self, x) ==
    LET preprocessed == IF self.preprocessor # "None" THEN x + 1 ELSE x
        predicted == preprocessed * 10
    IN  IF self.postprocessor # "None" THEN predicted * 2 ELSE predicted

----------------------------------------------------------------------------
(* Stage order *)

\* the callables of a request in the order the claim gives them
StageOrder ==
    << "schema.validate", "pd.DataFrame", "additional_checks",
       "X_input[feature_columns]", "preprocessor.process", "model.predict",
       "postprocessor.process", "make_prediction_response",
       "make_batch_prediction_response" >>

Rank(stage) == CHOOSE i \in 1..Len(StageOrder) : StageOrder[i] = stage

\* the stages a request goes through when nothing raises, by configuration
ConfiguredStages(self) ==
    {"pd.DataFrame", "model.predict"}
    \cup (IF self.validate_request_data /\ self.feature_schema # <<>>
            THEN {"schema.validate"} ELSE {})
    \cup (IF self.additional_checks # "None" THEN {"additional_checks"} ELSE {})
    \cup (IF feature_columns(self) # {} THEN {"X_input[feature_columns]"} ELSE {})
    \cup (IF self.preprocessor # "None" THEN {"preprocessor.process"} ELSE {})
    \cup (IF self.postprocessor # "None" THEN {"postprocessor.process"} ELSE {})
    \cup (IF self.batch_prediction THEN {"make_batch_prediction_response"}
                                   ELSE {"make_prediction_response"})

\* the trace entry of a stage that was invoked
StageEntry(stage) ==
    pred.stages[CHOOSE k \in 1..Len(pred.stages) : pred.stages[k].stage = stage]

StagesInvoked == { pred.stages[k].stage : k \in 1..Len(pred.stages) }

\* C12: _predict runs its stages in a fixed order with no retry: parse and
\* schema-validate the body, then additional_checks, then feature projection,
\* then the preprocessor, then model.predict, then the postprocessor (given
\* the original input, the preprocessed input and the raw output), then
\* response assembly; each configured stage is invoked at most once per
\* request, and when a stage raises no later stage is invoked.
C12_StagesInOrderOnce ==
    pred.op = "predict" =>
        /\ \A j, k \in 1..Len(pred.stages) :
              j < k => Rank(pred.stages[j].stage) < Rank(pred.stages[k].stage)
        /\ StagesInvoked \subseteq ConfiguredStages(pred.self)
        /\ pred.raised = <<>> => StagesInvoked = ConfiguredStages(pred.self)
        /\ \A k \in 1..Len(pred.stages) :
              pred.stages[k].out = <<>> => (k = Len(pred.stages) /\ pred.raised # <<>>)
        /\ "postprocessor.process" \in StagesInvoked =>
              /\ StageEntry("postprocessor.process").in[1] = StageEntry("pd.DataFrame").out[1]
              /\ StageEntry("postprocessor.process").in[2] = StageEntry("model.predict").in[1]
              /\ StageEntry("postprocessor.process").in[3] = StageEntry("model.predict").out[1]

\* every stage is configured and the request runs through all eight of them
C12_Witness ==
    /\ pred.op = "predict"
    /\ Len(pred.stages) = 8
    /\ pred.stages[1].stage = "schema.validate"
    /\ pred.stages[8].stage = "make_batch_prediction_response"
    /\ pred.raised = <<>>

\* a request on which additional_checks raises although a preprocessor and
\* a postprocessor are configured: nothing runs after it
C12_RaisedMidway ==
    /\ pred.op = "predict"
    /\ pred.self.postprocessor # "None"
    /\ pred.self.preprocessor # "None"
    /\ pred.stages[Len(pred.stages)].stage = "additional_checks"
    /\ pred.raised # <<>>

----------------------------------------------------------------------------
(* Feature projection *)

\* C13 as stated: when a feature schema is present, the batch handed to
\* additional_checks and to the preprocessor holds no column that the feature
\* schema does not declare.
C13_OnlyDeclaredColumnsVisible ==
    (pred.op = "predict" /\ pred.self.feature_schema # <<>>) =>
        \A k \in 1..Len(pred.stages) :
            pred.stages[k].stage \in {"additional_checks", "preprocessor.process"} =>
                pred.stages[k].in[1].columns \subseteq feature_columns(pred.self)

\* C13 amended: when a feature schema that declares at least one property is
\* present, the batch handed to the preprocessor (to the computation when no
\* preprocessor is configured) holds exactly the declared feature columns;
\* additional_checks runs before
\* the projection and is handed the whole parsed request, id and undeclared
\* columns included.
C13_PreprocessorSeesDeclaredColumns ==
    (pred.op = "predict" /\ feature_columns(pred.self) # {}) =>
        /\ "preprocessor.process" \in StagesInvoked =>
              StageEntry("preprocessor.process").in[1].columns = feature_columns(pred.self)
        /\ (pred.self.preprocessor = "None" /\ "model.predict" \in StagesInvoked) =>
              StageEntry("model.predict").in[1].columns = feature_columns(pred.self)
        /\ "additional_checks" \in StagesInvoked =>
              StageEntry("additional_checks").in[1] = StageEntry("pd.DataFrame").out[1]

C13_Witness ==
    /\ pred.op = "predict"
    /\ feature_columns(pred.self) = {"x"}
    /\ "additional_checks" \in StagesInvoked
    /\ StageEntry("additional_checks").in[1].columns = {"id", "x", "z"}
    /\ "preprocessor.process" \in StagesInvoked
    /\ StageEntry("preprocessor.process").in[1].columns = {"x"}
    /\ pred.returned # <<>>

----------------------------------------------------------------------------
(* Request validation *)

\* the service of the last request validates requests and has a POST request
\* schema registered
ValidatesRequests ==
    pred.self.validate_request_data /\ pred.self.feature_schema # <<>>

\* the body of the last request has the shape of the service's mode and every
\* object in it carries id and the declared features
BodyMatchesSchema ==
    /\ pred.self.batch_prediction => pred.body.kind = "array"
    /\ ~pred.self.batch_prediction => pred.body.kind = "object"
    /\ \A k \in 1..Len(pred.body.rows) :
          "id" \in DOMAIN pred.body.rows[k]
          /\ \A c \in pred.self.feature_schema[1] : c \in DOMAIN pred.body.rows[k]

----------------------------------------------------------------------------
(* Malformed payloads *)

\* the body of the last request has the wrong structural shape for the
\* service's mode
WrongShape ==
    \/ pred.self.batch_prediction /\ pred.body.kind = "object"
    \/ ~pred.self.batch_prediction /\ pred.body.kind = "array"

\* C15: a POST body of the wrong structural shape (a non-object body in
\* instance mode, a non-array body in batch mode) is rejected with the
\* malformed-payload error, status 400, while parsing, before any validation
\* or pipeline stage, whether or not request-schema validation is enabled.
C15_WrongShapeRejectedWith400 ==
    (pred.op = "predict" /\ WrongShape) =>
        /\ pred.raised # <<>>
        /\ pred.raised[1].code = 400
        /\ StagesInvoked \subseteq {"pd.DataFrame"}

----------------------------------------------------------------------------
(* API-call logging *)

IsApiCall(record) == record.event = "api_call"

\* the api_call records of the last invocation, and of all invocations so far
ApiCallsLogged == SelectSeq(call.logged, IsApiCall)
AllApiCallsLogged == SelectSeq(call.log, IsApiCall)

\* C16: with API-call logging enabled, every invocation of a service logs
\* exactly one api_call record holding the correlation id, the request
\* payload, the service class name and the response payload, on success and
\* on failure alike, the response payload being null when serve() failed;
\* with logging disabled no api_call record is logged.
C16_OneApiCallRecordPerCall ==
    call.n > 0 =>
        /\ call.self.log_api_calls =>
              /\ Len(ApiCallsLogged) = 1
              /\ Len(AllApiCallsLogged) = call.n
              /\ ApiCallsLogged[1].request_id = call.request[1].id
              /\ ApiCallsLogged[1].request_data = call.request[1].json
              /\ ApiCallsLogged[1].service_class = call.self.cls
              /\ ServeRaised => ApiCallsLogged[1].response_data = <<>>
              /\ call.returned # <<>> => ApiCallsLogged[1].response_data = call.returned
        /\ ~call.self.log_api_calls => Len(AllApiCallsLogged) = 0

\* a second invocation, on which serve() raised, was logged like the first
C16_Witness ==
    /\ call.n = 2
    /\ call.self.log_api_calls
    /\ ServeRaised
    /\ Len(AllApiCallsLogged) = 2
    /\ ApiCallsLogged[1].response_data = <<>>

----------------------------------------------------------------------------
(* Schemas: porter/schemas/openapi.py.  An ApiObject is a record of its     *)
(* type, its reference name (none or one) and its children; a dict that is  *)
(* iterated is a sequence of its items.                                      *)

RefNames == {"A", "B"}

\* the reference_name argument: None or a str
reference_names == {<<>>} \cup { <<n>> : n \in RefNames }

\* Integer(...), Number(...), String(...), Boolean(...)
Leaf(type, reference_name) == [type |-> type, reference_name |-> reference_name]

\* Array(item_type=...)
Array(item_type, reference_name) ==
    [type |-> "array", reference_name |-> reference_name, item_type |-> item_type]

\* list(properties.keys())
Keys(properties) == [k \in 1..Len(properties) |-> properties[k].name]

\* Object(properties=...) with the default required='all'
Object(properties, reference_name) ==
    [type |-> "object", reference_name |-> reference_name,
     properties |-> properties, required |-> Keys(properties)]

\* _RefContext.__init__
RefContext(ignore_refs) == [schemas |-> <<>>, ignore_refs |-> ignore_refs]

\* _RefContext.__enter__ and __exit__ on the class-level stack _context
RefContext_enter(context, c) == Append(context, c)
RefContext_exit(context) == SubSeq(context, 1, Len(context) - 1)

\* a plausible slip: the definition is attached to the innermost context
add_ref_innermost(context, ref_name, openapi_spec) ==
    [context EXCEPT ![Len(context)].schemas = DictSet(@, ref_name, openapi_spec)]

\* _RefContext.add_ref: always the first item of the stack
add_ref(context, ref_name, openapi_spec) ==
    [context EXCEPT ![1].schemas = DictSet(@, ref_name, openapi_spec)]

\* _RefContext.context_ignore_refs
context_ignore_refs(context) == context[1].ignore_refs

RECURSIVE to_openapi(_, _)
RECURSIVE properties_to_openapi(_, _)
RECURSIVE customized_openapi(_, _)

\* {name: prop.to_openapi()[0] for name, prop in self.properties.items()}
properties_to_openapi(properties, context) ==
    IF properties = <<>>
        THEN [spec |-> <<>>, context |-> context]
        ELSE LET first == to_openapi(properties[1].prop, context)
                 rest == properties_to_openapi(Tail(properties), first.context)
             IN  [spec |-> DictSet(rest.spec, properties[1].name, first.spec),
                  context |-> rest.context]

\* ApiObject.to_openapi line 45 with Array._customized_openapi and
\* Object._customized_openapi
customized_openapi(self, context) ==
    IF self.type = "array"
        THEN LET item == to_openapi(self.item_type, context)
             IN  [spec |-> [type |-> "array", items |-> item.spec],
                  context |-> item.context]
    ELSE IF self.type = "object"
        THEN LET props == properties_to_openapi(self.properties, context)
             IN  [spec |-> [type |-> "object", properties |-> props.spec,
                            required |-> self.required],
                  context |-> props.context]
    ELSE [spec |-> [type |-> self.type], context |-> context]

\* ApiObject.to_openapi, called with the stack _RefContext._context as it
\* stands: the definition returned, the schemas of the context this call
\* entered, and the stack after the call
to_openapi(self, context) ==
    LET entered == RefContext_enter(context, RefContext(FALSE))
        ref_context == Len(entered)
        custom == customized_openapi(self, entered)
        openapi_spec == custom.spec
        is_ref == self.reference_name # <<>> /\ ~context_ignore_refs(custom.context)
        after == IF is_ref
                    THEN add_ref(custom.context, self.reference_name[1], openapi_spec)
                    ELSE custom.context
    IN  [spec |-> IF is_ref THEN [ref |-> self.reference_name[1]] ELSE openapi_spec,
         refs |-> after[ref_context].schemas,
         context |-> RefContext_exit(after)]

\* ApiObject.__init__: self.jsonschema
jsonschema(self) ==
    to_openapi(self, RefContext_enter(<<>>, RefContext(TRUE))).spec

\* the names dict keys are drawn from, by position
PropertyNames == <<"p", "q", "r", "s">>

Leaves == { Leaf("integer", n) : n \in reference_names }

\* leaves and objects of one leaf
Inner ==
    Leaves \cup { Object(<<[name |-> "p", prop |-> l]>>, n) :
                    l \in Leaves, n \in reference_names }

PropertyLists(S) ==
    UNION { { [k \in 1..n |-> [name |-> PropertyNames[k], prop |-> f[k]]] :
                f \in [1..n -> S] } : n \in 1..MaxProperties }

\* the schema nodes rendered: up to three levels deep
ApiObjects ==
    Inner
    \cup { Array(i, n) : i \in Inner, n \in reference_names }
    \cup { Object(ps, n) : ps \in PropertyLists(Inner), n \in reference_names }

\* self.to_openapi() called from outside any rendering, on the schema object
\* at hand
ToOpenapi ==
    LET rendered == to_openapi(result.self, <<>>)
    IN  /\ result' = [op |-> "to_openapi", self |-> result.self,
                      spec |-> rendered.spec, refs |-> rendered.refs,
                      context |-> rendered.context,
                      jsonschema |-> jsonschema(result.self)]
        /\ UNCHANGED <<ids, services, app, threads, call, errs, pred>>

\* a schema object has been constructed
InitSchema ==
    /\ ids = {}
    /\ services = <<>>
    /\ app = ModelApp_init
    /\ result \in { [op |-> "ApiObject", self |-> self] : self \in ApiObjects }
    /\ threads = <<>>
    /\ call = Idle
    /\ errs = Idle
    /\ pred = Idle

NextSchema == ToOpenapi

SpecSchema == InitSchema /\ [][NextSchema]_vars

RECURSIVE NamesIn(_)
RECURSIVE NamesInAll(_)

\* the reference names carried by a node and the nodes below it
NamesIn(node) ==
    { node.reference_name[k] : k \in 1..Len(node.reference_name) }
    \cup (IF node.type = "array" THEN NamesIn(node.item_type)
          ELSE IF node.type = "object" THEN NamesInAll(node.properties)
          ELSE {})

NamesInAll(properties) ==
    IF properties = <<>> THEN {}
    ELSE NamesIn(properties[1].prop) \cup NamesInAll(Tail(properties))

RECURSIVE Body(_, _)

\* a node as it appears inside another definition: a pointer when it carries
\* a name and pointers are wanted, its body otherwise
Nested(node, pointers) ==
    IF pointers /\ node.reference_name # <<>>
        THEN [ref |-> node.reference_name[1]]
        ELSE Body(node, pointers)

\* the definition of a node itself, its children as pointers or inlined
Body(node, pointers) ==
    IF node.type = "array"
        THEN [type |-> "array", items |-> Nested(node.item_type, pointers)]
    ELSE IF node.type = "object"
        THEN [type |-> "object",
              properties |-> [name \in { node.properties[k].name : k \in 1..Len(node.properties) } |->
                  Nested(node.properties[CHOOSE k \in 1..Len(node.properties) :
                                            node.properties[k].name = name].prop, pointers)],
              required |-> node.required]
    ELSE [type |-> node.type]

\* the last rendering was of a node that carries a reference name
RenderedNamed == result.op = "to_openapi" /\ result.self.reference_name # <<>>

\* C17 as stated: rendering a schema node that carries a reference name as
\* the outermost call returns that node's fully inlined body, never a pointer
\* to itself, together with a refs table that contains the node's name.
C17_OutermostReturnsInlinedBody ==
    RenderedNamed =>
        /\ result.spec # [ref |-> result.self.reference_name[1]]
        /\ result.spec = Body(result.self, FALSE)
        /\ result.self.reference_name[1] \in DOMAIN result.refs

\* C17 amended: rendering a schema node that carries a reference name as the
\* outermost call returns a pointer to that name together with a refs table
\* whose keys are exactly the names carried in the node's tree, each once,
\* the node's own name mapped to its body with named children as pointers;
\* the fully inlined body, without any pointer, is what the node's
\* constructor renders for validation.
C17_OutermostReturnsPointerAndRefs ==
    RenderedNamed =>
        /\ result.spec = [ref |-> result.self.reference_name[1]]
        /\ DOMAIN result.refs = NamesIn(result.self)
        /\ result.refs[result.self.reference_name[1]] = Body(result.self, TRUE)
        /\ result.jsonschema = Body(result.self, FALSE)
        /\ result.context = <<>>

\* a named object with a named property
C17_Witness ==
    /\ RenderedNamed
    /\ result.self.type = "object"
    /\ result.self.reference_name = <<"A">>
    /\ result.self.properties[1].prop.reference_name = <<"B">>
    /\ result.refs["A"].properties["p"] = [ref |-> "B"]
    /\ DOMAIN result.refs = {"A", "B"}

----------------------------------------------------------------------------
(* Schema registration: BaseService.__init__ and PredictionService.__init__ *)

\* schemas.model_context_error, schemas.request_id, schemas.model_context:
\* the shared schema objects of porter.schemas, each known by its role only
model_context_error == Leaf("model_context_error", <<>>)
request_id == Leaf("request_id", <<>>)
model_context == Leaf("model_context", <<>>)

\* the four schema tables of a service, empty
no_schemas ==
    [request_schemas |-> <<>>, response_schemas |-> <<>>,
     _request_schemas |-> <<>>, _response_schemas |-> <<>>]

\* method.upper() on the spellings of the HTTP methods at hand
upper(method) ==
    CASE method = "get" -> "GET"
      [] method = "post" -> "POST"
      [] OTHER -> method

\* BaseService.add_request_schema
add_request_schema(self, method, api_obj) ==
    [self EXCEPT !.request_schemas = DictSet(@, upper(method), api_obj),
                 !._request_schemas = DictSet(@, upper(method), api_obj)]

\* BaseService.add_response_schema
add_response_schema(self, method, status_code, api_obj) ==
    [self EXCEPT
        !._response_schemas = DictSet(@, <<upper(method), status_code>>, api_obj),
        !.response_schemas =
            DictSet(@, upper(method),
                    Append(IF upper(method) \in DOMAIN @ THEN @[upper(method)] ELSE <<>>,
                           [status_code |-> status_code, api_obj |-> api_obj]))]

\* BaseService.__init__ lines 209-219 for a PredictionService: the default
\* schemas of the base class, then _service_default_schemas
default_schemas ==
    add_response_schema(
        add_response_schema(
            add_response_schema(
                add_response_schema(no_schemas, "POST", 400, model_context_error),
                "POST", 422, model_context_error),
            "POST", 500, model_context_error),
        "GET", 200, Leaf("string", <<>>))

\* dict[name] = prop on a dict kept as the sequence of its items
ItemSet(items, name, prop) ==
    IF \E k \in 1..Len(items) : items[k].name = name
        THEN [k \in 1..Len(items) |->
                IF items[k].name = name THEN [name |-> name, prop |-> prop] ELSE items[k]]
        ELSE Append(items, [name |-> name, prop |-> prop])

RECURSIVE DictUpdate(_, _)

\* {**items, **more}
DictUpdate(items, more) ==
    IF more = <<>> THEN items
    ELSE DictUpdate(ItemSet(items, more[1].name, more[1].prop), Tail(more))

\* a plausible slip: the schema is registered as given, without the id
add_feature_schema_as_given(self, batch_prediction, user_schema) ==
    add_request_schema(self, "POST",
        IF batch_prediction THEN Array(user_schema, <<>>) ELSE user_schema)

\* PredictionService._add_feature_schema, past its assertion
add_feature_schema(self, batch_prediction, user_schema) ==
    LET request_schema ==
            Object(DictUpdate(<<[name |-> "id", prop |-> Leaf("integer", <<>>)]>>,
                              user_schema.properties),
                   user_schema.reference_name)
    IN  add_request_schema(self, "POST",
            IF batch_prediction THEN Array(request_schema, <<>>) ELSE request_schema)

\* PredictionService._add_prediction_schema
add_prediction_schema(self, batch_prediction, user_schema) ==
    LET prediction_schema ==
            Object(<<[name |-> "id", prop |-> Leaf("integer", <<>>)],
                     [name |-> "prediction",
                      prop |-> IF user_schema # <<>> THEN user_schema[1]
                               ELSE Leaf("number", <<>>)]>>,
                   IF user_schema # <<>> THEN user_schema[1].reference_name ELSE <<>>)
        response_schema ==
            Object(<<[name |-> "request_id", prop |-> request_id],
                     [name |-> "schemas.model_context", prop |-> model_context],
                     [name |-> "predictions",
                      prop |-> IF batch_prediction THEN Array(prediction_schema, <<>>)
                               ELSE prediction_schema]>>,
                   <<>>)
    IN  add_response_schema(self, "POST", 200, response_schema)

\* PredictionService.__init__ from super().__init__ on
PredictionService_init(batch_prediction, feature_schema, prediction_schema) ==
    IF feature_schema # <<>> /\ feature_schema[1].type # "object"
        THEN [raised |-> "AssertionError: feature_schema", self |-> default_schemas,
              feature_columns |-> <<>>]
        ELSE [raised |-> None,
              self |-> add_prediction_schema(
                          IF feature_schema # <<>>
                             THEN add_feature_schema(default_schemas, batch_prediction,
                                                     feature_schema[1])
                             ELSE default_schemas,
                          batch_prediction, prediction_schema),
              feature_columns |-> IF feature_schema # <<>>
                                     THEN Keys(feature_schema[1].properties) ELSE <<>>]

\* the names of the features a user declares, by position
FeatureNames == <<"x", "y", "z", "w">>

\* the feature schemas a user writes: objects of up to MaxProperties numeric
\* features, with or without a reference name
UserObjects ==
    { Object(ps, n) :
        ps \in UNION { { [k \in 1..len |-> [name |-> FeatureNames[k], prop |-> f[k]]] :
                           f \in [1..len -> {Leaf("integer", <<>>), Leaf("number", <<>>)}] } :
                       len \in 0..MaxProperties },
        n \in reference_names }

\* the feature_schema argument: None, an Object, or something else
FeatureSchemaArgs ==
    {<<>>, <<Leaf("number", <<>>)>>} \cup { <<o>> : o \in UserObjects }

\* the prediction_schema argument: None or any schema object
PredictionSchemaArgs ==
    { <<>>, <<Leaf("number", <<>>)>>, <<Leaf("string", <<"A">>)>>,
      <<Object(<<[name |-> "label", prop |-> Leaf("string", <<>>)]>>, <<>>)>>,
      <<Object(<<[name |-> "label", prop |-> Leaf("string", <<>>)]>>, <<"B">>)>> }

\* PredictionService(...): the schema tables of the new service
ConstructPredictionService ==
    /\ result.op = "arguments"
    /\ LET made == PredictionService_init(result.batch_prediction, result.feature_schema,
                                          result.prediction_schema)
       IN  result' = [op |-> "PredictionService",
                      batch_prediction |-> result.batch_prediction,
                      feature_schema |-> result.feature_schema,
                      prediction_schema |-> result.prediction_schema,
                      raised |-> made.raised, self |-> made.self,
                      feature_columns |-> made.feature_columns]
    /\ UNCHANGED <<ids, services, app, threads, call, errs, pred>>

\* the arguments of a construction
InitRegister ==
    /\ ids = {}
    /\ services = <<>>
    /\ app = ModelApp_init
    /\ result \in [op : {"arguments"}, batch_prediction : BOOLEAN,
                    feature_schema : FeatureSchemaArgs,
                    prediction_schema : PredictionSchemaArgs]
    /\ threads = <<>>
    /\ call = Idle
    /\ errs = Idle
    /\ pred = Idle

NextRegister == ConstructPredictionService

SpecRegister == InitRegister /\ [][NextRegister]_vars

\* a PredictionService has been constructed without error
Constructed == result.op = "PredictionService" /\ result.raised = None

\* the names of the properties of an object schema
PropertySet(obj) == { obj.properties[k].name : k \in 1..Len(obj.properties) }

\* the property of an object schema with a given name
Property(obj, name) ==
    obj.properties[CHOOSE k \in 1..Len(obj.properties) : obj.properties[k].name = name].prop

\* the schema is an {id, prediction} object
IsPredictionRecord(obj) ==
    obj.type = "object" /\ PropertySet(obj) = {"id", "prediction"}

IsOk(entry) == entry.status_code = 200

\* C18: the POST/200 response schema that a PredictionService registers is an
\* object whose properties are exactly request_id, model_context and
\* predictions, where predictions is an {id, prediction} object in instance
\* mode and an array of such objects in batch mode; exactly one 200 response
\* schema is registered for POST, whether or not a prediction schema was
\* supplied.
C18_ResponseSchemaEnvelope ==
    Constructed =>
        LET registered == result.self._response_schemas[<<"POST", 200>>]
            predictions == Property(registered, "predictions")
        IN  /\ <<"POST", 200>> \in DOMAIN result.self._response_schemas
            /\ registered.type = "object"
            /\ PropertySet(registered) = {"request_id", "model_context", "predictions"}
            /\ ~result.batch_prediction => IsPredictionRecord(predictions)
            /\ result.batch_prediction =>
                  predictions.type = "array" /\ IsPredictionRecord(predictions.item_type)
            /\ Len(SelectSeq(result.self.response_schemas["POST"], IsOk)) = 1

----------------------------------------------------------------------------
(* Endpoint derivation *)

\* every spelling of a namespace over a slash and a letter
NamespaceSpellings == UNION { [1..n -> {"/", "n"}] : n \in 0..MaxNamespaceLen }

ServiceNames == {<<"a">>, <<"b">>}
ApiVersions == {<<"1">>, <<"2">>}

\* a service is constructed from the arguments at hand
ConstructFromArguments ==
    LET c == construct(ids, result.cls, result.name, result.api_version,
                       result.namespace, TRUE, IS_READY, TRUE)
    IN  /\ ids' = c.ids
        /\ services' = services \o c.made
        /\ result' = [op |-> "constructed", cls |-> result.cls, name |-> result.name,
                      api_version |-> result.api_version, namespace |-> result.namespace,
                      raised |-> c.raised, id |-> c.id, made |-> c.made]
        /\ UNCHANGED <<app, threads, call, errs, pred>>

\* the arguments of a construction
InitEndpoint ==
    /\ ids = {}
    /\ services = <<>>
    /\ app = ModelApp_init
    /\ result \in [op : {"arguments"}, cls : Classes, name : ServiceNames,
                    api_version : ApiVersions, namespace : NamespaceSpellings]
    /\ threads = <<>>
    /\ call = Idle
    /\ errs = Idle
    /\ pred = Idle

NextEndpoint == ConstructFromArguments

SpecEndpoint == InitEndpoint /\ [][NextEndpoint]_vars

\* a namespace with a missing leading slash added and a trailing slash
\* removed, the empty namespace left empty
Normalized(namespace) ==
    IF namespace = <<>> THEN <<>>
    ELSE LET led == IF namespace[1] = "/" THEN namespace ELSE <<"/">> \o namespace
         IN  IF led[Len(led)] = "/" THEN SubSeq(led, 1, Len(led) - 1) ELSE led

\* /name/version/action
EndpointTail(cls, name, api_version) ==
    <<"/">> \o name \o <<"/">> \o api_version \o <<"/">>
    \o (IF cls = "PredictionService" THEN <<"prediction">> ELSE <<"serve">>)

\* C20: a service's endpoint is a function of (namespace, name, version,
\* action) only: the normalized namespace followed by /name/version/action,
\* where normalization adds a missing leading slash, removes a trailing slash
\* and leaves the empty namespace empty, so that the spellings 'ns', '/ns',
\* 'ns/' and '/ns/' all derive the same endpoint, and therefore the same id.
C20_EndpointFromNormalizedNamespace ==
    result.op = "constructed" =>
        LET tail == EndpointTail(result.cls, result.name, result.api_version)
        IN  /\ result.id = Normalized(result.namespace) \o tail
            /\ result.made # <<>> =>
                  /\ result.made[1].endpoint = Normalized(result.namespace) \o tail
                  /\ result.made[1].id = result.made[1].endpoint
            /\ result.namespace \in { <<"n">>, <<"/", "n">>, <<"n", "/">>, <<"/", "n", "/">> } =>
                  result.id = <<"/", "n">> \o tail
            /\ result.namespace = <<>> => result.id = tail

\* a service constructed with the namespace spelled 'n/'
C20_Witness ==
    /\ result.op = "constructed"
    /\ result.namespace = <<"n", "/">>
    /\ result.made # <<>>
    /\ result.made[1].endpoint = <<"/", "n", "/", "a", "/", "1", "/", "prediction">>

----------------------------------------------------------------------------
(* Error envelope contents *)

\* C21: every error envelope contains error.name; it contains error.messages
\* exactly when the return-message policy flag is on, error.traceback exactly
\* when the return-traceback flag is on, and error.user_data exactly when the
\* return-user-data flag is on; it contains model_context exactly when the
\* error carries a model context.
C21_EnvelopeKeysFollowPolicy ==
    errs.op = "error" =>
        LET payload == errs.response.data
        IN  /\ "error" \in payload.keys
            /\ "name" \in payload.error_keys
            /\ payload.name = errs.error.type
            /\ "messages" \in payload.error_keys <=> errs.cf.return_message_on_error
            /\ "traceback" \in payload.error_keys <=> errs.cf.return_traceback_on_error
            /\ "user_data" \in payload.error_keys <=> errs.cf.return_user_data_on_error
            /\ "model_context" \in payload.keys <=> errs.error.model_service # <<>>

\* an error with a model context, answered with traceback but no messages
C21_Witness ==
    /\ errs.op = "error"
    /\ errs.error.model_service # <<>>
    /\ ~errs.cf.return_message_on_error
    /\ errs.cf.return_traceback_on_error
    /\ errs.response.data.error_keys = {"name", "traceback"}
    /\ "model_context" \in errs.response.data.keys

----------------------------------------------------------------------------
(* The ipa prediction endpoint: required fields of a request *)

MaxFeatures == 2

\* the names a feature engineer can declare
IpaFeatures == { FeatureNames[k] : k \in 1..MaxFeatures }

ID_KEY == "id"

\* the request payload as a frame: its columns, each with or without a null
Frames == UNION { [columns -> {"value", "null"}] : columns \in SUBSET ({ID_KEY} \cup IpaFeatures) }

\* feature_engineer.get_feature_names(): declared names in some order
FeatureNameLists ==
    { names \in UNION { [1..n -> IpaFeatures] : n \in 0..MaxFeatures } :
        \A i, j \in DOMAIN names : i # j => names[i] # names[j] }

\* raises ValueError naming the required columns that are absent (KeyError
\* of the column selection) or, all present, those that hold a null
check_request(X, feature_names) ==
    LET required_keys == <<ID_KEY>> \o feature_names
        Absent(c) == c \notin DOMAIN X
        HasNull(c) == X[c] = "null"
    IN  IF \E k \in DOMAIN required_keys : Absent(required_keys[k])
            THEN <<[type |-> "ValueError", text |-> "request payload is missing the following fields",
                    fields |-> SelectSeq(required_keys, Absent)]>>
        ELSE IF \E k \in DOMAIN required_keys : HasNull(required_keys[k])
            THEN <<[type |-> "ValueError", text |-> "request payload had null values in the following fields",
                    fields |-> SelectSeq(required_keys, HasNull)]>>
        ELSE <<>>

\* werkzeug's BadRequest raised without arguments: code 400 and the class's
\* own description, which names no field
BadRequest ==
    [type |-> "BadRequest", code |-> 400,
     text |-> "The browser (or proxy) sent a request that this server could not understand.",
     fields |-> <<>>]

\* the ValueError of check_request is answered by a bare BadRequest
serve_prediction(X, feature_names) ==
    LET checked == check_request(X, feature_names)
    IN  IF checked # <<>>
            THEN [raised |-> <<BadRequest>>, status_code |-> BadRequest.code]
            ELSE [raised |-> <<>>, status_code |-> 200]

\* the request at hand is served
ServePrediction ==
    /\ result.op = "request"
    /\ LET served == serve_prediction(result.X, result.feature_names)
       IN  result' = [op |-> "serve_prediction", X |-> result.X,
                      feature_names |-> result.feature_names,
                      raised |-> served.raised, status_code |-> served.status_code]
    /\ UNCHANGED <<ids, services, app, threads, call, errs, pred>>

\* a request payload and the feature names of the model it is sent to
InitIpa ==
    /\ ids = {}
    /\ services = <<>>
    /\ app = ModelApp_init
    /\ result \in [op : {"request"}, X : Frames, feature_names : FeatureNameLists]
    /\ threads = <<>>
    /\ call = Idle
    /\ errs = Idle
    /\ pred = Idle

NextIpa == ServePrediction

SpecIpa == InitIpa /\ [][NextIpa]_vars

\* the required fields (id and the declared features) absent from the payload
AbsentFields == { c \in {ID_KEY} \cup { result.feature_names[k] : k \in DOMAIN result.feature_names } :
                    c \notin DOMAIN result.X }

\* C22: for every payload in which one or more required fields (id or a
\* declared feature) is absent, the request is answered with status 422 and
\* an error message that names exactly the absent fields.
C22_AbsentFieldsAnswered422 ==
    (result.op = "serve_prediction" /\ AbsentFields # {}) =>
        /\ result.raised # <<>>
        /\ result.status_code = 422
        /\ { result.raised[1].fields[k] : k \in DOMAIN result.raised[1].fields } = AbsentFields

----------------------------------------------------------------------------
(* Response validation in the wrapper *)

\* serve() returned in the last call an object that could be serialized
ServeReturned ==
    call.outcome # <<>> /\ call.outcome[1].kind = "return" /\ call.outcome[1].serializable

\* the status code of the response the last call built
ResponseStatus == jsonify(Response(<<>>, call.outcome[1].status_code)).status_code

\* validation is enabled and a schema is registered for the pair
\* (request method, response status) of the last call
SchemaApplies ==
    /\ call.self.validate_response_data
    /\ <<call.request[1].method, ResponseStatus>> \in response_schema_keys(call.self.cls)

\* C23: when response validation is enabled and a schema is registered for
\* the (request method, response status) pair, the outgoing payload is
\* validated against that schema before the response is returned, so a
\* non-conforming payload is never returned; when no schema is registered
\* for the pair, or validation is disabled, the response is returned without
\* validation.
C23_ValidatedBeforeReturn ==
    ServeReturned =>
        /\ (SchemaApplies /\ ~call.outcome[1].conforms) =>
              /\ call.returned = <<>>
              /\ call.raised = <<Error("ValueError: Schema validation failed", FALSE, NoStatus)>>
        /\ (SchemaApplies /\ call.outcome[1].conforms) =>
              /\ call.returned # <<>>
              /\ call.raised = <<>>
        /\ ~SchemaApplies =>
              /\ call.raised = <<>>
              /\ call.returned # <<>>
              /\ call.returned[1].status_code = ResponseStatus
              /\ call.returned[1].conforms = call.outcome[1].conforms

\* a prediction service with validation enabled answers a POST with status
\* 200 and a payload that does not conform: the validation raises
C23_Witness ==
    /\ ServeReturned
    /\ call.self.cls = "PredictionService"
    /\ call.request[1].method = "POST"
    /\ ResponseStatus = 200
    /\ SchemaApplies
    /\ ~call.outcome[1].conforms
    /\ call.returned = <<>>
    /\ call.raised # <<>>

\* the same payload leaves a service that has validation disabled
C23_ReturnedUnvalidated ==
    /\ ServeReturned
    /\ ~call.self.validate_response_data
    /\ ~call.outcome[1].conforms
    /\ call.returned # <<>>

----------------------------------------------------------------------------
(* Named descendants of a rendered node *)

RECURSIVE Descendants(_)
RECURSIVE DescendantsOfAll(_)

\* the nodes below a node, through array items and object properties
Descendants(node) ==
    IF node.type = "array" THEN {node.item_type} \cup Descendants(node.item_type)
    ELSE IF node.type = "object" THEN DescendantsOfAll(node.properties)
    ELSE {}

DescendantsOfAll(properties) ==
    IF properties = <<>> THEN {}
    ELSE {properties[1].prop} \cup Descendants(properties[1].prop)
         \cup DescendantsOfAll(Tail(properties))

\* the descendants of the rendered node that carry a reference name
NamedDescendants == { d \in Descendants(result.self) : d.reference_name # <<>> }

\* the body the outermost call rendered for the node itself: what it
\* returned, or what it registered under the node's own name
RenderedBody ==
    IF result.self.reference_name # <<>>
        THEN result.refs[result.self.reference_name[1]]
        ELSE result.spec

\* C24: when a node is rendered as the outermost call, every descendant that
\* carries a reference name (at any nesting depth, through object properties
\* and array items) is replaced at its position by a pointer to its name,
\* and the refs table returned by the outermost call contains each such name
\* exactly once with the descendant's body.
C24_NamedDescendantsPointedAndCollected ==
    result.op = "to_openapi" =>
        /\ RenderedBody = Body(result.self, TRUE)
        /\ \A d \in NamedDescendants :
              /\ d.reference_name[1] \in DOMAIN result.refs
              /\ result.refs[d.reference_name[1]] = Body(d, TRUE)

\* no reference name is carried by two nodes of the tree that differ
NamesUnambiguous ==
    \A d, e \in NamedDescendants \cup {result.self} :
        d.reference_name = e.reference_name => d = e

\* C24 on trees in which one name stands for one schema
C24_HoldsForUnambiguousNames ==
    (result.op = "to_openapi" /\ NamesUnambiguous) =>
        /\ RenderedBody = Body(result.self, TRUE)
        /\ \A d \in NamedDescendants :
              /\ d.reference_name[1] \in DOMAIN result.refs
              /\ result.refs[d.reference_name[1]] = Body(d, TRUE)

\* an unnamed object whose properties are an integer named A and an object
\* also named A: the table keeps one body under A
C24_NameCarriedTwice ==
    /\ result.op = "to_openapi"
    /\ result.self.reference_name = <<>>
    /\ result.self.type = "object"
    /\ Len(result.self.properties) = 2
    /\ result.self.properties[1].prop = Leaf("integer", <<"A">>)
    /\ result.self.properties[2].prop.type = "object"
    /\ result.self.properties[2].prop.reference_name = <<"A">>
    /\ result.refs["A"] = Body(result.self.properties[2].prop, TRUE)

----------------------------------------------------------------------------
(* StatefulRoute: the __name__ of routed instances *)

MaxInstances == 3

\* the routed classes of a process: each a class object of its own, with
\* its __name__ and the routed class it derives from, if that class can be
\* instantiated (BaseService is abstract and StatefulRoute is not routed).
\* Two user classes are both called Service.
RouteClasses ==
    [PredictionService |-> [name |-> "PredictionService", base |-> "object"],
     Custom |-> [name |-> "Custom", base |-> "PredictionService"],
     Service |-> [name |-> "Service", base |-> "object"],
     OtherService |-> [name |-> "Service", base |-> "object"],
     ServeAlive |-> [name |-> "ServeAlive", base |-> "object"]]

\* str.lower on the class names at hand
lower(name) ==
    CASE name = "PredictionService" -> "predictionservice"
      [] name = "Custom" -> "custom"
      [] name = "Service" -> "service"
      [] name = "ServeAlive" -> "servealive"

RECURSIVE getattr_instances(_, _)

\* the attribute lookup cls._instances: the class's own attribute, else the
\* one of the nearest base class that has it
getattr_instances(class_dict, cls) ==
    IF cls = "object" THEN <<>>
    ELSE IF class_dict[cls] # <<>> THEN class_dict[cls]
    ELSE getattr_instances(class_dict, RouteClasses[cls].base)

\* StatefulRoute.__new__: the class attributes after the call and the
\* __name__ of the new instance
StatefulRoute_new(class_dict, cls) ==
    LET initialized == IF getattr_instances(class_dict, cls) = <<>>
                          THEN [class_dict EXCEPT ![cls] = <<0>>]
                          ELSE class_dict
        counted == [initialized EXCEPT ![cls] = <<getattr_instances(initialized, cls)[1] + 1>>]
    IN  [class_dict |-> counted,
         instance |-> [cls |-> cls,
                       name |-> <<lower(RouteClasses[cls].name), counted[cls][1]>>]]

\* an instance of a routed class is created
NewInstance ==
    \E cls \in DOMAIN RouteClasses :
        /\ result.op = "routes"
        /\ Len(result.instances) < MaxInstances
        /\ LET made == StatefulRoute_new(result.class_dict, cls)
           IN  result' = [op |-> "routes", class_dict |-> made.class_dict,
                          instances |-> Append(result.instances, made.instance)]
        /\ UNCHANGED <<ids, services, app, threads, call, errs, pred>>

\* no class has an _instances attribute yet
InitRoute ==
    /\ ids = {}
    /\ services = <<>>
    /\ app = ModelApp_init
    /\ result = [op |-> "routes", class_dict |-> [cls \in DOMAIN RouteClasses |-> <<>>],
                 instances |-> <<>>]
    /\ threads = <<>>
    /\ call = Idle
    /\ errs = Idle
    /\ pred = Idle

NextRoute == NewInstance

SpecRoute == InitRoute /\ [][NextRoute]_vars

\* how many of the first i instances are of the class of the i-th
InstanceNumber(i) ==
    Cardinality({ j \in 1..i : result.instances[j].cls = result.instances[i].cls })

\* C25: the k-th instance created of a StatefulRoute class is named
\* '<lowercased class name>_k' with k counting that class's instances from
\* 1, and no two routed instances ever have the same __name__.
C25_NamedByClassAndCount ==
    result.op = "routes" =>
        /\ \A i \in DOMAIN result.instances :
              result.instances[i].name =
                  <<lower(RouteClasses[result.instances[i].cls].name), InstanceNumber(i)>>
        /\ \A i, j \in DOMAIN result.instances :
              i # j => result.instances[i].name # result.instances[j].name

\* C25, the numbering alone
C25_CountsFromOne ==
    result.op = "routes" =>
        \A i \in DOMAIN result.instances :
            result.instances[i].name =
                <<lower(RouteClasses[result.instances[i].cls].name), InstanceNumber(i)>>

\* C25, the uniqueness alone
C25_NamesUnique ==
    result.op = "routes" =>
        \A i, j \in DOMAIN result.instances :
            i # j => result.instances[i].name # result.instances[j].name

----------------------------------------------------------------------------
(* Construction that fails after the id was assigned *)

\* C26: if construction of a service fails after its id has been assigned
\* (for example a PredictionService whose feature_schema is not an Object),
\* the id is not left in the process-wide id set, so that a later
\* construction with the same parameters and a valid configuration succeeds.
C26_FailedConstructionReleasesId ==
    (result.op = "construct" /\ result.raised = "AssertionError: feature_schema") =>
        /\ result.id \notin ids
        /\ id_setter(ids, result.id).raised = None

----------------------------------------------------------------------------
(* The cleanup step of the wrapper after a failed serve() *)

\* C27: when serve() fails and response validation is enabled, the caller
\* still receives the error raised for the failure (the taxonomy error, or
\* the wrapping 500 error): the post-processing in the wrapper's cleanup
\* step never replaces it with a different exception.
C27_CleanupKeepsRaisedError ==
    (ServeRaised /\ call.self.validate_response_data) =>
        call.raised = <<IF ServedError.http THEN ServedError
                        ELSE InternalServerError_from(ServedError)>>

----------------------------------------------------------------------------
(* Repeated registration of response schemas *)

MaxAdds == 2

\* service.add_response_schema(method, status_code, api_obj) on the service
\* at hand, for some spelling of the method, some status code and a string
\* or an object schema
AddResponseSchema ==
    \E method \in {"GET", "POST", "post"}, status_code \in {200, 422, 500},
       api_obj \in {Leaf("string", <<>>),
                    Object(<<[name |-> "x", prop |-> Leaf("integer", <<>>)]>>, <<>>)} :
        /\ result.op = "service"
        /\ result.adds < MaxAdds
        /\ result' = [op |-> "service",
                      self |-> add_response_schema(result.self, method, status_code, api_obj),
                      adds |-> result.adds + 1]
        /\ UNCHANGED <<ids, services, app, threads, call, errs, pred>>

\* a service as BaseService.__init__ leaves its schema tables
InitAddSchema ==
    /\ ids = {}
    /\ services = <<>>
    /\ app = ModelApp_init
    /\ result = [op |-> "service", self |-> default_schemas, adds |-> 0]
    /\ threads = <<>>
    /\ call = Idle
    /\ errs = Idle
    /\ pred = Idle

NextAddSchema == AddResponseSchema

SpecAddSchema == InitAddSchema /\ [][NextAddSchema]_vars

\* the positions of the public list of a method that hold a status code
EntriesFor(self, method, status_code) ==
    { k \in DOMAIN self.response_schemas[method] :
        self.response_schemas[method][k].status_code = status_code }

\* C28: after any sequence of add_response_schema calls on a service, the
\* public response_schemas list of each method holds exactly one entry per
\* status code, and that entry's schema is the one the internal (method,
\* status) lookup uses for response validation.
C28_OneEntryPerStatus ==
    result.op = "service" =>
        /\ \A key \in DOMAIN result.self._response_schemas :
              /\ key[1] \in DOMAIN result.self.response_schemas
              /\ Cardinality(EntriesFor(result.self, key[1], key[2])) = 1
              /\ \A k \in EntriesFor(result.self, key[1], key[2]) :
                    result.self.response_schemas[key[1]][k].api_obj
                        = result.self._response_schemas[key]
        /\ \A method \in DOMAIN result.self.response_schemas :
              \A k \in DOMAIN result.self.response_schemas[method] :
                  <<method, result.self.response_schemas[method][k].status_code>>
                      \in DOMAIN result.self._response_schemas

\* C28 for registrations that never repeat a (method, status) pair: the
\* list and the lookup agree entry by entry
C28_HoldsWithoutRepetition ==
    (result.op = "service"
        /\ \A key \in DOMAIN result.self._response_schemas :
              Cardinality(EntriesFor(result.self, key[1], key[2])) = 1) =>
        \A key \in DOMAIN result.self._response_schemas :
            \A k \in EntriesFor(result.self, key[1], key[2]) :
                result.self.response_schemas[key[1]][k].api_obj
                    = result.self._response_schemas[key]

----------------------------------------------------------------------------
(* Two threads on the class-level stack _RefContext._context.  Every        *)
(* _RefContext object lives on a heap, keyed by the thread that made it and *)
(* a serial number; the stack holds references to them.  A call is run as   *)
(* the sequence of its statements, the statements of the nested calls in    *)
(* place; values local to a thread are kept on the thread's own stack.      *)

\* the two threads of the claim
RenderThreads == {1, 2}

\* the schema objects the threads work on
SharedObjects ==
    { Leaf("integer", <<"A">>),
      Array(Leaf("integer", <<"B">>), <<>>),
      Object(<<[name |-> "p", prop |-> Leaf("integer", <<"A">>)]>>, <<>>) }

RECURSIVE Statements(_)
RECURSIVE StatementsOfAll(_)

\* the statements of self.to_openapi() in the order they run
Statements(self) ==
    <<[op |-> "enter", ignore_refs |-> FALSE]>>
    \o (IF self.type = "array"
            THEN Statements(self.item_type) \o <<[op |-> "array"]>>
        ELSE IF self.type = "object"
            THEN StatementsOfAll(self.properties)
                 \o <<[op |-> "object", names |-> Keys(self.properties),
                       required |-> self.required]>>
        ELSE <<[op |-> "leaf", type |-> self.type]>>)
    \o (IF self.reference_name # <<>>
            THEN <<[op |-> "context_ignore_refs"],
                   [op |-> "add_ref", ref_name |-> self.reference_name[1]]>>
            ELSE <<>>)
    \o <<[op |-> "exit"]>>

StatementsOfAll(properties) ==
    IF properties = <<>> THEN <<>>
    ELSE Statements(properties[1].prop) \o StatementsOfAll(Tail(properties))

\* the statements of a call: to_openapi, or ApiObject.__init__, which runs
\* to_openapi inside `with _RefContext(ignore_refs=True)`
StatementsOf(thread) ==
    IF thread.call = "to_openapi" THEN Statements(thread.self)
    ELSE <<[op |-> "enter", ignore_refs |-> TRUE]>> \o Statements(thread.self)
         \o <<[op |-> "exit"]>>

\* the _RefContext object whose schemas the outermost to_openapi returns
ref_context(t) == IF threads[t].call = "to_openapi" THEN <<t, 1>> ELSE <<t, 2>>

Finished(t) == threads[t].pc > Len(StatementsOf(threads[t]))

\* thread t runs its next statement
Step(t) ==
    /\ result.op = "_RefContext"
    /\ ~Finished(t)
    /\ LET thread == threads[t]
           statement == StatementsOf(thread)[thread.pc]
           values == thread.values
           n == Len(values)
           first == result._context[1]
       IN  CASE statement.op = "enter" ->
                   \* self._context.append(self)
                   /\ result' = [result EXCEPT
                         !._context = RefContext_enter(@, <<t, thread.made + 1>>),
                         !.objects = DictSet(@, <<t, thread.made + 1>>,
                                             RefContext(statement.ignore_refs))]
                   /\ threads' = [threads EXCEPT ![t].pc = @ + 1, ![t].made = @ + 1]
             [] statement.op = "exit" ->
                   \* self._context.pop()
                   /\ result' = [result EXCEPT !._context = RefContext_exit(@)]
                   /\ threads' = [threads EXCEPT ![t].pc = @ + 1]
             [] statement.op = "context_ignore_refs" ->
                   \* cls._context[0].ignore_refs decides whether add_ref runs
                   /\ threads' = [threads EXCEPT
                         ![t].pc = IF result.objects[first].ignore_refs THEN @ + 2 ELSE @ + 1]
                   /\ UNCHANGED result
             [] statement.op = "add_ref" ->
                   \* cls._context[0].schemas[ref_name] = openapi_spec, and the
                   \* pointer is what the call returns
                   /\ result' = [result EXCEPT
                         !.objects[first].schemas = DictSet(@, statement.ref_name, values[n])]
                   /\ threads' = [threads EXCEPT
                         ![t].pc = @ + 1,
                         ![t].values = [values EXCEPT ![n] = [ref |-> statement.ref_name]]]
             [] statement.op = "leaf" ->
                   /\ threads' = [threads EXCEPT
                         ![t].pc = @ + 1,
                         ![t].values = Append(values, [type |-> statement.type])]
                   /\ UNCHANGED result
             [] statement.op = "array" ->
                   /\ threads' = [threads EXCEPT
                         ![t].pc = @ + 1,
                         ![t].values = [values EXCEPT
                                           ![n] = [type |-> "array", items |-> values[n]]]]
                   /\ UNCHANGED result
             [] statement.op = "object" ->
                   LET k == Len(statement.names)
                       spec == [type |-> "object",
                                properties |->
                                    [name \in { statement.names[i] : i \in 1..k } |->
                                        values[n - k + CHOOSE i \in 1..k : statement.names[i] = name]],
                                required |-> statement.required]
                   IN  /\ threads' = [threads EXCEPT
                             ![t].pc = @ + 1,
                             ![t].values = Append(SubSeq(values, 1, n - k), spec)]
                       /\ UNCHANGED result
    /\ UNCHANGED <<ids, services, app, call, errs, pred>>

\* two threads, each about to render or construct a schema object; the
\* stack is empty
InitRefConc ==
    /\ ids = {}
    /\ services = <<>>
    /\ app = ModelApp_init
    /\ result = [op |-> "_RefContext", _context |-> <<>>, objects |-> <<>>]
    /\ threads \in [RenderThreads -> [call : {"to_openapi", "__init__"}, self : SharedObjects,
                                      pc : {1}, made : {0}, values : {<<>>}]]
    /\ call = Idle
    /\ errs = Idle
    /\ pred = Idle

NextRefConc == \E t \in RenderThreads : Step(t)

SpecRefConc == InitRefConc /\ [][NextRefConc]_vars

\* both calls have returned
BothFinished == result.op = "_RefContext" /\ \A t \in RenderThreads : Finished(t)

\* what the call of thread t returned: the body, and for a rendering the
\* schemas of its own context
Returned(t) ==
    IF threads[t].call = "to_openapi"
        THEN [spec |-> threads[t].values[1], refs |-> result.objects[ref_context(t)].schemas]
        ELSE [spec |-> threads[t].values[1], refs |-> <<>>]

\* what the same call returns when it runs alone
ReturnedAlone(t) ==
    IF threads[t].call = "to_openapi"
        THEN [spec |-> to_openapi(threads[t].self, <<>>).spec,
              refs |-> to_openapi(threads[t].self, <<>>).refs]
        ELSE [spec |-> jsonschema(threads[t].self), refs |-> <<>>]

\* C29: schema rendering and schema construction running in two threads at
\* once do not interfere through the shared reference-context stack: in
\* every interleaving each call returns the same body and refs table it
\* returns when run alone, and the stack is empty again once both calls have
\* finished.
C29_NoInterference ==
    BothFinished =>
        /\ \A t \in RenderThreads : Returned(t) = ReturnedAlone(t)
        /\ result._context = <<>>

\* C29, the stack alone: it is empty once both calls have finished
C29_StackEmptyAtEnd == BothFinished => result._context = <<>>

\* a call that has finished before the other thread started returned what it
\* returns alone
C29_UndisturbedCallAgrees ==
    \A t, u \in RenderThreads :
        (result.op = "_RefContext" /\ t # u /\ Finished(t) /\ threads[u].pc = 1)
            => Returned(t) = ReturnedAlone(t)

----------------------------------------------------------------------------
(* Feature schemas with optional properties *)

\* Object(properties=..., required=...): required is 'all' (the default,
\* here the absent argument) or a list of property names
Object_init(properties, required, reference_name) ==
    [type |-> "object", reference_name |-> reference_name, properties |-> properties,
     required |-> IF required = <<>> THEN Keys(properties) ELSE required[1]]

\* the sublists of a list of names
SubLists(names) ==
    { SelectSeq(names, LAMBDA name : name \in chosen) :
        chosen \in SUBSET { names[k] : k \in 1..Len(names) } }

\* the feature schemas a user writes: up to MaxProperties numeric features,
\* all of them required or a chosen list of them
UserObjectsRequiring ==
    UNION { { Object_init(ps, required, n) :
                required \in {<<>>} \cup { <<names>> : names \in SubLists(Keys(ps)) },
                n \in reference_names } :
            ps \in UNION { { [k \in 1..len |-> [name |-> FeatureNames[k], prop |-> f[k]]] :
                               f \in [1..len -> {Leaf("integer", <<>>), Leaf("number", <<>>)}] } :
                           len \in 1..MaxProperties } }

\* PredictionService(feature_schema=...): the request schema is registered
AddFeatureSchema ==
    /\ result.op = "feature_schema"
    /\ result' = [op |-> "add_feature_schema",
                  batch_prediction |-> result.batch_prediction,
                  feature_schema |-> result.feature_schema,
                  self |-> add_feature_schema(default_schemas, result.batch_prediction,
                                              result.feature_schema)]
    /\ UNCHANGED <<ids, services, app, threads, call, errs, pred>>

\* the feature schema and the mode of a service under construction
InitFeature ==
    /\ ids = {}
    /\ services = <<>>
    /\ app = ModelApp_init
    /\ result \in [op : {"feature_schema"}, batch_prediction : BOOLEAN,
                    feature_schema : UserObjectsRequiring]
    /\ threads = <<>>
    /\ call = Idle
    /\ errs = Idle
    /\ pred = Idle

NextFeature == AddFeatureSchema

SpecFeature == InitFeature /\ [][NextFeature]_vars

\* the object of the registered POST request schema
RegisteredObject ==
    IF result.batch_prediction THEN result.self._request_schemas["POST"].item_type
    ELSE result.self._request_schemas["POST"]

\* the names a schema requires
RequiredSet(obj) == { obj.required[k] : k \in 1..Len(obj.required) }

\* C30: the POST request schema built from a feature schema requires exactly
\* id plus the properties the user's feature schema marks as required: a
\* property the user declared optional stays optional in the registered
\* request schema.
C30_RequiredFollowsUserSchema ==
    result.op = "add_feature_schema" =>
        RequiredSet(RegisteredObject) = {"id"} \cup RequiredSet(result.feature_schema)

\* what is registered: every property is required, whatever the user declared
C30_EveryPropertyRequired ==
    result.op = "add_feature_schema" =>
        RequiredSet(RegisteredObject) = {"id"} \cup PropertySet(result.feature_schema)

====
